---- MODULE Spec2Model ----
(***************************************************************************)
(* A model of the Log node (src/src/bin/kafka.rs) running inside the       *)
(* dispatch runtime (src/src/lib.rs): the durable files of one node, the   *)
(* node's in-memory index and counters, the intake thread, the channel     *)
(* between the intake thread and the processing loop, and the sink.        *)
(***************************************************************************)
EXTENDS Integers, Sequences, FiniteSets, TLC

VARIABLES
    fs,            \* the directory of the node: path -> content, a sequence of tokens (absent paths are not in the domain)
    phase,         \* main thread: "boot", "running", "crashed" (panic/exit), "failed" (from_init error)
    msg_id_seq,    \* KafkaNode.msg_id_seq
    next_offsets,  \* KafkaNode.next_offsets: topic -> next offset (absent topics are not in the domain)
    file_handles,  \* KafkaNode.file_handles: the topics with an open FileHandle
    index,         \* KafkaNode.index: topic -> (offset -> byte position)
    intake,        \* intake thread: "idle" (not spawned), "running", "done" (stdin at EOF), "panicked"
    queue,         \* the mpsc channel: envelopes sent by the intake thread and not yet received
    senders,       \* the live Sender handles of the channel: "tx" (main thread), "tx_std" (intake thread)
    sink,          \* the lines this process has written to stdout
    nread,         \* number of input lines read after the init line, over all runs
    arrived,       \* history: the envelopes the intake thread has decoded in this run, in order
    hist,          \* history: the steps of this run, in order, each with its outcome
    appended,      \* history: topic -> the (offset, value) pairs append_message returned Ok for, over all runs
    written,       \* history: topic -> the offsets whose record append_message wrote whole, over all runs
    committed,     \* history: topic -> the offset of its commit record, the latest commit that returned Ok and that no failed commit emptied since
    startFiles     \* history: the paths that existed when this process started

vars == <<fs, phase, msg_id_seq, next_offsets, file_handles, index, intake, queue,
          senders, sink, nread, arrived, hist, appended, written, committed, startFiles>>

-----------------------------------------------------------------------------
(* Bounds of the model.                                                    *)

MaxLines == 2

(* The inputs the harness may send.                                        *)

NodeId == "n1"
Client == "c1"
Topics == {"a", "a.log"}
Values == {7, 10}
PollOffsets == {0, 1}
CommitValues == {1, 2}

-----------------------------------------------------------------------------
(* Paths and file contents.                                                *)

\* format!("{}-{}.log", self.id, topic)
LogPath(topic) == NodeId \o "-" \o topic \o ".log"

\* format!("{}-{}", self.id, topic)
CommitPath(topic) == NodeId \o "-" \o topic

\* A file is a sequence of tokens: the JSON text of a LogEntry, a decimal
\* integer, a newline, or bytes that are no whole token (the start of a record
\* whose write failed midway, or the rest of a token read from its middle).
Rec(offset, message) == [kind |-> "rec", offset |-> offset, message |-> message]
Num(n) == [kind |-> "int", n |-> n]
NL == [kind |-> "nl"]
Part(bytes) == [kind |-> "part", bytes |-> bytes]

Digits(n) == IF n < 10 THEN 1 ELSE IF n < 100 THEN 2 ELSE 3

\* The number of bytes of a token: {"offset":O,"message":M} is 22 bytes and
\* the digits of O and M.
TokenBytes(k) ==
    CASE k.kind = "rec" -> 22 + Digits(k.offset) + Digits(k.message)
      [] k.kind = "int" -> Digits(k.n)
      [] k.kind = "nl" -> 1
      [] k.kind = "part" -> k.bytes

RECURSIVE FileLen(_)
FileLen(c) == IF c = <<>> THEN 0 ELSE TokenBytes(Head(c)) + FileLen(Tail(c))

\* serde_json::to_writer(&mut buf, &entry); buf.push(b'\n')
EncodeEntry(offset, message) == <<Rec(offset, message), NL>>

\* format!("{commit_offset}\n")
EncodeCommit(n) == <<Num(n), NL>>

\* The bytes of content c from byte position pos on (a seek to pos, then a
\* read to the end): nothing at or past the end, and the rest of a token when
\* pos falls inside it.
RECURSIVE ReadAt(_, _)
ReadAt(c, pos) ==
    IF c = <<>> \/ pos = 0 THEN c
    ELSE LET n == TokenBytes(Head(c))
         IN  IF pos >= n THEN ReadAt(Tail(c), pos - n)
             ELSE <<Part(n - pos)>> \o Tail(c)

\* The lines of content c as read_line and lines() yield them: each with its
\* tokens (the newline left out) and its bytes (the newline counted); bytes
\* after the last newline are a last line.
RECURSIVE SplitLines(_, _, _)
SplitLines(c, toks, bytes) ==
    IF c = <<>>
    THEN IF toks = <<>> THEN <<>> ELSE <<[toks |-> toks, bytes |-> bytes]>>
    ELSE IF Head(c).kind = "nl"
         THEN <<[toks |-> toks, bytes |-> bytes + 1]>> \o SplitLines(Tail(c), <<>>, 0)
         ELSE SplitLines(Tail(c), Append(toks, Head(c)), bytes + TokenBytes(Head(c)))

Lines(c) == SplitLines(c, <<>>, 0)

\* serde_json::from_str::<LogEntry> of one line: the line is one record.
IsEntry(line) == Len(line.toks) = 1 /\ line.toks[1].kind = "rec"

\* s.trim().parse::<usize>() of a whole file: the newlines at both ends are
\* trimmed and what is left is one integer.
RECURSIVE TrimStart(_)
TrimStart(c) == IF c # <<>> /\ Head(c).kind = "nl" THEN TrimStart(Tail(c)) ELSE c
RECURSIVE TrimEnd(_)
TrimEnd(c) == IF c # <<>> /\ c[Len(c)].kind = "nl" THEN TrimEnd(SubSeq(c, 1, Len(c) - 1)) ELSE c
ParseUsize(c) ==
    LET t == TrimEnd(TrimStart(c))
    IN  IF Len(t) = 1 /\ t[1].kind = "int" THEN [ok |-> TRUE, n |-> t[1].n] ELSE [ok |-> FALSE]

-----------------------------------------------------------------------------
(* The node and its files as one value, so that the operations of          *)
(* KafkaNode compose as functions from state to result.                    *)

State == [fs |-> fs, next_offsets |-> next_offsets,
          file_handles |-> file_handles, index |-> index]

Ok(st, val) == [ok |-> TRUE, st |-> st, val |-> val]
Err(st) == [ok |-> FALSE, st |-> st, val |-> <<>>]

\* KafkaNode::get_or_create_log_file. io is what the file system does:
\* "open_w_fail" (the append handle cannot be opened), "open_r_fail" (the
\* read handle cannot be opened, after the file was created), anything else:
\* both handles open.
get_or_create_log_file(st, topic, io) ==
    IF topic \in st.file_handles THEN Ok(st, topic)
    ELSE IF io = "open_w_fail" THEN Err(st)
    ELSE LET path == LogPath(topic)
             created == IF path \in DOMAIN st.fs THEN st.fs ELSE (path :> <<>>) @@ st.fs
         IN  IF io = "open_r_fail" THEN Err([st EXCEPT !.fs = created])
             ELSE Ok([st EXCEPT
                        !.fs = created,
                        !.next_offsets = IF topic \in DOMAIN st.next_offsets
                                         THEN st.next_offsets
                                         ELSE (topic :> 0) @@ st.next_offsets,
                        !.file_handles = st.file_handles \cup {topic}],
                     topic)

\* KafkaNode::update_index
update_index(st, topic, current_offset, file_loc_ptr) ==
    LET entry == IF topic \in DOMAIN st.index THEN st.index[topic] ELSE <<>>
    IN  [st EXCEPT !.index = (topic :> ((current_offset :> file_loc_ptr) @@ entry)) @@ st.index]

\* A variant that forgets the increment: the counter stays where it is.
BumpOffsetForgotten(st, topic) == st

\* The counter after `*offset.get_mut() += 1`.
BumpOffset(st, topic) ==
    [st EXCEPT !.next_offsets[topic] = st.next_offsets[topic] + 1]

\* KafkaNode::append_message. io: as for get_or_create_log_file, or
\* "metadata_fail" (fh.r.metadata() fails), "write_fail" (write_all fails
\* with nothing written), "write_torn" (write_all fails after the first 10
\* bytes of the record, {"offset": , were written), "write_no_newline"
\* (write_all fails after all bytes but the newline were written).
append_message(st, topic, message, io) ==
    LET g == get_or_create_log_file(st, topic, io)
    IN  IF ~g.ok THEN Err(g.st)
        ELSE IF io = "metadata_fail" THEN Err(g.st)
        ELSE LET path == LogPath(topic)
                 current_offset == g.st.next_offsets[topic]
                 buf == EncodeEntry(current_offset, message)
                 start_ptr == FileLen(g.st.fs[path])
                 st1 == BumpOffset(g.st, topic)
             IN  IF io = "write_fail" THEN Err(st1)
                 ELSE IF io = "write_torn"
                 THEN Err([st1 EXCEPT !.fs[path] = @ \o <<Part(10)>>])
                 ELSE IF io = "write_no_newline"
                 THEN Err([st1 EXCEPT !.fs[path] = @ \o <<buf[1]>>])
                 ELSE Ok(update_index([st1 EXCEPT !.fs[path] = @ \o buf],
                                      topic, current_offset, start_ptr),
                         current_offset)

\* The loop of read_messages over the lines read: an empty line is skipped, a
\* line that is no LogEntry is an error, the first record is kept only if its
\* offset is the one asked for, every later record is kept.
RECURSIVE ScanLines(_, _, _, _)
ScanLines(lines, start_message_offset, started, out) ==
    IF lines = <<>> THEN [ok |-> TRUE, out |-> out]
    ELSE LET l == Head(lines)
         IN  IF l.toks = <<>>
             THEN ScanLines(Tail(lines), start_message_offset, started, out)
             ELSE IF ~IsEntry(l) THEN [ok |-> FALSE, out |-> <<>>]
             ELSE IF ~started /\ l.toks[1].offset # start_message_offset
             THEN ScanLines(Tail(lines), start_message_offset, TRUE, out)
             ELSE ScanLines(Tail(lines), start_message_offset, TRUE,
                            Append(out, <<l.toks[1].offset, l.toks[1].message>>))

\* A variant that opens the topic's file before it looks at the index.
read_messages_open_first(st, topic, start_message_offset, io) ==
    LET g == get_or_create_log_file(st, topic, io)
    IN  IF ~g.ok THEN Err(g.st)
        ELSE IF topic \notin DOMAIN g.st.index THEN Ok(g.st, <<>>)
        ELSE IF start_message_offset \notin DOMAIN g.st.index[topic] THEN Ok(g.st, <<>>)
        ELSE IF io = "read_fail" THEN Err(g.st)
        ELSE LET r == ScanLines(Lines(ReadAt(g.st.fs[LogPath(topic)],
                                             g.st.index[topic][start_message_offset])),
                                start_message_offset, FALSE, <<>>)
             IN  IF r.ok THEN Ok(g.st, r.out) ELSE Err(g.st)

\* KafkaNode::read_messages. io: as for get_or_create_log_file, or
\* "read_fail" (the seek or the read of a line fails).
read_messages(st, topic, start_message_offset, io) ==
    IF topic \notin DOMAIN st.index THEN Ok(st, <<>>)
    ELSE IF start_message_offset \notin DOMAIN st.index[topic] THEN Ok(st, <<>>)
    ELSE LET pos == st.index[topic][start_message_offset]
             g == get_or_create_log_file(st, topic, io)
         IN  IF ~g.ok THEN Err(g.st)
             ELSE IF io = "read_fail" THEN Err(g.st)
             ELSE LET r == ScanLines(Lines(ReadAt(g.st.fs[LogPath(topic)], pos)),
                                     start_message_offset, FALSE, <<>>)
                  IN  IF r.ok THEN Ok(g.st, r.out) ELSE Err(g.st)

\* A variant that never moves a committed offset backwards: it keeps the
\* larger of the offset on file and the new one.
commit_monotone(st, topic, commit_offset, io) ==
    LET path == CommitPath(topic)
        old == IF path \in DOMAIN st.fs THEN ParseUsize(st.fs[path]) ELSE [ok |-> FALSE]
        n == IF old.ok /\ old.n > commit_offset THEN old.n ELSE commit_offset
    IN  IF io = "create_fail" THEN Err(st)
        ELSE IF io = "write_fail" THEN Err([st EXCEPT !.fs = (path :> <<>>) @@ st.fs])
        ELSE Ok([st EXCEPT !.fs = (path :> EncodeCommit(n)) @@ st.fs], <<>>)

\* KafkaNode::commit. io: "create_fail" (the file cannot be opened for
\* writing), "write_fail" (the file was truncated and the write failed),
\* anything else: the file holds the offset and a newline.
commit(st, topic, commit_offset, io) ==
    LET path == CommitPath(topic)
    IN  IF io = "create_fail" THEN Err(st)
        ELSE IF io = "write_fail" THEN Err([st EXCEPT !.fs = (path :> <<>>) @@ st.fs])
        ELSE Ok([st EXCEPT !.fs = (path :> EncodeCommit(commit_offset)) @@ st.fs], <<>>)

\* KafkaNode::read_commit: None when the file is not there (read_to_string
\* succeeds on every file that is), Some(n) when its trimmed text is the
\* integer n, a panic otherwise.
read_commit(st, topic) ==
    LET path == CommitPath(topic)
    IN  IF path \notin DOMAIN st.fs THEN [kind |-> "none"]
        ELSE LET v == ParseUsize(st.fs[path])
             IN  IF v.ok THEN [kind |-> "some", n |-> v.n] ELSE [kind |-> "panic"]

\* A variant that takes the offset of the last line for the largest.
RECURSIVE IndexLinesLast(_, _, _, _)
IndexLinesLast(lines, location_ptr, next_offset, entries) ==
    IF lines = <<>> THEN [ok |-> TRUE, entries |-> entries, next_offset |-> next_offset]
    ELSE LET l == Head(lines)
             o == l.toks[1].offset
         IN  IF ~IsEntry(l) THEN [ok |-> FALSE, entries |-> <<>>, next_offset |-> 0]
             ELSE IndexLinesLast(Tail(lines), location_ptr + l.bytes, o,
                                 (o :> location_ptr) @@ entries)

\* A variant that skips a line that is no LogEntry instead of failing.
RECURSIVE IndexLinesSkipping(_, _, _, _)
IndexLinesSkipping(lines, location_ptr, next_offset, entries) ==
    IF lines = <<>> THEN [ok |-> TRUE, entries |-> entries, next_offset |-> next_offset]
    ELSE LET l == Head(lines)
             o == l.toks[1].offset
         IN  IF ~IsEntry(l)
             THEN IndexLinesSkipping(Tail(lines), location_ptr + l.bytes, next_offset, entries)
             ELSE IndexLinesSkipping(Tail(lines), location_ptr + l.bytes,
                                     IF o > next_offset THEN o ELSE next_offset,
                                     (o :> location_ptr) @@ entries)

\* The loop of build_index over the lines of one file: each record's offset is
\* mapped to the byte position its line starts at, the largest offset is
\* tracked from 0, and a line that is no LogEntry is an error.
RECURSIVE IndexLines(_, _, _, _)
IndexLines(lines, location_ptr, next_offset, entries) ==
    IF lines = <<>> THEN [ok |-> TRUE, entries |-> entries, next_offset |-> next_offset]
    ELSE LET l == Head(lines)
             o == l.toks[1].offset
         IN  IF ~IsEntry(l) THEN [ok |-> FALSE, entries |-> <<>>, next_offset |-> 0]
             ELSE IndexLines(Tail(lines), location_ptr + l.bytes,
                             IF o > next_offset THEN o ELSE next_offset,
                             (o :> location_ptr) @@ entries)

\* The topics of the files glob finds for "<node_id>-*.log": the file stem
\* with the "<node_id>-" prefix stripped.
GlobTopics(files) == {t \in Topics : LogPath(t) \in DOMAIN files}

\* KafkaNode::build_index: the index and the counters rebuilt from the files,
\* or an error. A topic gets an index entry only if its file has a line; it
\* gets a counter, the largest offset + 1, in any case.
build_index(files) ==
    LET scan == [t \in GlobTopics(files) |-> IndexLines(Lines(files[LogPath(t)]), 0, 0, <<>>)]
    IN  IF \E t \in DOMAIN scan : ~scan[t].ok
        THEN [ok |-> FALSE, index |-> <<>>, next_offsets |-> <<>>]
        ELSE [ok |-> TRUE,
              index |-> [t \in {u \in DOMAIN scan : files[LogPath(u)] # <<>>} |-> scan[t].entries],
              next_offsets |-> [t \in DOMAIN scan |-> scan[t].next_offset + 1]]

-----------------------------------------------------------------------------
(* Envelopes.                                                              *)

Send(topic, message) == [type |-> "send", key |-> topic, msg |-> message]
SendOk(offset) == [type |-> "send_ok", offset |-> offset]
Poll(offsets) == [type |-> "poll", offsets |-> offsets]
PollOk(messages) == [type |-> "poll_ok", msgs |-> messages]
CommitOffsets(offsets) == [type |-> "commit_offsets", offsets |-> offsets]
CommitOffsetsOk == [type |-> "commit_offsets_ok"]
ListCommittedOffsets(keys) == [type |-> "list_committed_offsets", keys |-> keys]
ListCommittedOffsetsOk(offsets) == [type |-> "list_committed_offsets_ok", offsets |-> offsets]

Message(src, dst, msg_id, in_reply_to, payload) ==
    [src |-> src, dst |-> dst, msg_id |-> msg_id, in_reply_to |-> in_reply_to, payload |-> payload]

\* Option<usize>::None
None == -1

\* A variant that keeps the source and the destination of the request.
to_reply_unswapped(input, seq) == Message(input.src, input.dst, seq, input.msg_id, input.payload)

\* A variant that gives the reply the message id of the request.
to_reply_request_id(input, seq) ==
    Message(input.dst, input.src, input.msg_id, input.msg_id, input.payload)

\* Message::to_reply with Some(&mut msg_id_seq): the reply, its payload still
\* the request's; the sequence is advanced by the caller of this operator.
to_reply(input, seq) == Message(input.dst, input.src, seq, input.msg_id, input.payload)

InitPayload == [type |-> "init", node_id |-> NodeId, node_ids |-> <<NodeId>>]
InitOk == [type |-> "init_ok"]

\* The init line the harness sends first to every process it starts.
InitMessage == Message(Client, NodeId, 1, None, InitPayload)

\* The payloads a decodable input line may carry.
PollMaps == {[t \in S |-> o] : S \in SUBSET Topics, o \in PollOffsets}
CommitMaps == {[t \in S |-> n] : S \in SUBSET Topics, n \in CommitValues}
KeyLists == {<<>>} \cup {<<t>> : t \in Topics} \cup {<<t, u>> : t \in Topics, u \in Topics}
Payloads ==
    {Send(t, v) : t \in Topics, v \in Values}
    \cup {Poll(m) : m \in PollMaps}
    \cup {CommitOffsets(m) : m \in CommitMaps}
    \cup {ListCommittedOffsets(k) : k \in KeyLists}
    \cup {SendOk(0), PollOk(<<>>), CommitOffsetsOk, ListCommittedOffsetsOk(<<>>)}

\* What the operating system may do to the I/O of one step ("sink_fail": the
\* write of the reply to stdout fails).
SendIo == {"ok", "open_w_fail", "open_r_fail", "metadata_fail", "write_fail", "write_torn",
           "write_no_newline", "sink_fail"}
PollIo == {"ok", "open_w_fail", "open_r_fail", "read_fail", "sink_fail"}
CommitIo == {"ok", "create_fail", "write_fail", "sink_fail"}
ListIo == {"ok", "sink_fail"}

\* The orders in which a HashMap with key set S may be iterated.
Orders(S) == {o \in [1..Cardinality(S) -> S] : \A i, j \in 1..Cardinality(S) : o[i] = o[j] => i = j}

-----------------------------------------------------------------------------
(* KafkaNode::step, one operator per arm of the match. Each returns what  *)
(* the arm does to the node and the files, whether it returned Ok, and the *)
(* reply payload it wrote. io is what the operating system does to the     *)
(* I/O on topic `at` ("sink_fail": the write to stdout fails).             *)

StepResult(r, payload, io) ==
    [ok |-> r.ok /\ io # "sink_fail", st |-> r.st, opok |-> r.ok, val |-> r.val, io |-> io,
     reply |-> IF r.ok /\ io # "sink_fail" THEN <<payload>> ELSE <<>>]

\* A variant that replies with the counter after the increment.
step_send_next_offset(st, payload, io) ==
    LET r == append_message(st, payload.key, payload.msg, io)
    IN  StepResult(r, SendOk(IF r.ok THEN r.val + 1 ELSE 0), io)

\* Payload::Send
step_send(st, payload, io) ==
    LET r == append_message(st, payload.key, payload.msg, io)
    IN  StepResult(r, SendOk(r.val), io)

\* The loop of the Payload::Poll arm, over the topics in iteration order.
RECURSIVE PollLoop(_, _, _, _, _, _)
PollLoop(st, order, offsets, at, io, result) ==
    IF order = <<>> THEN Ok(st, result)
    ELSE LET topic == Head(order)
             r == read_messages(st, topic, offsets[topic], IF topic = at THEN io ELSE "ok")
         IN  IF ~r.ok THEN Err(r.st)
             ELSE PollLoop(r.st, Tail(order), offsets, at, io, (topic :> r.val) @@ result)

\* Payload::Poll
step_poll(st, payload, order, at, io) ==
    LET r == PollLoop(st, order, payload.offsets, at, io, <<>>)
    IN  StepResult(r, PollOk(r.val), io)

\* The loop of the Payload::CommitOffsets arm; its value here is the set of
\* topics whose commit returned Ok.
RECURSIVE CommitLoop(_, _, _, _, _, _)
CommitLoop(st, order, offsets, at, io, done) ==
    IF order = <<>> THEN Ok(st, done)
    ELSE LET topic == Head(order)
             r == commit(st, topic, offsets[topic], IF topic = at THEN io ELSE "ok")
         IN  IF ~r.ok THEN [ok |-> FALSE, st |-> r.st, val |-> done]
             ELSE CommitLoop(r.st, Tail(order), offsets, at, io, done \cup {topic})

\* Payload::CommitOffsets
step_commit_offsets(st, payload, order, at, io) ==
    StepResult(CommitLoop(st, order, payload.offsets, at, io, {}), CommitOffsetsOk, io)

\* The loop of the Payload::ListCommittedOffsets arm: a topic without a commit
\* is skipped, the first value read for a topic is kept, a panic of read_commit
\* ends the step.
RECURSIVE ListLoop(_, _, _)
ListLoop(st, keys, commits) ==
    IF keys = <<>> THEN Ok(st, commits)
    ELSE LET top == Head(keys)
             v == read_commit(st, top)
         IN  IF v.kind = "panic" THEN Err(st)
             ELSE IF v.kind = "none" THEN ListLoop(st, Tail(keys), commits)
             ELSE ListLoop(st, Tail(keys),
                           IF top \in DOMAIN commits THEN commits ELSE (top :> v.n) @@ commits)

\* Payload::ListCommittedOffsets
step_list_committed_offsets(st, payload, io) ==
    LET r == ListLoop(st, payload.keys, <<>>)
    IN  StepResult(r, ListCommittedOffsetsOk(r.val), io)

-----------------------------------------------------------------------------
(* The runtime: main_loop.                                                 *)

\* A variant of the channel that hands over the newest envelope sent.
recv_newest(q) == [msg |-> q[Len(q)], rest |-> SubSeq(q, 1, Len(q) - 1)]

\* `for msg in rx`: the channel hands over the oldest envelope sent.
recv(q) == [msg |-> Head(q), rest |-> Tail(q)]

\* A variant that reports the error of a step and goes on with the loop.
unwrap_reported(res) == "running"

\* `.unwrap()` of what node.step returned: the main thread goes on after an
\* Ok and panics on an Err, which ends the process.
unwrap(res) == IF res.ok THEN "running" ELSE "crashed"

\* What one iteration of the processing loop does with the outcome res of
\* node.step(msg): the reply, if any, went to stdout with the next message id,
\* and unwrap() panics on an Err, which ends the process.
Process(input, res) ==
    /\ queue' = recv(queue).rest
    /\ msg_id_seq' = msg_id_seq + 1
    /\ fs' = res.st.fs
    /\ next_offsets' = res.st.next_offsets
    /\ file_handles' = res.st.file_handles
    /\ index' = res.st.index
    /\ sink' = IF res.reply = <<>> THEN sink
               ELSE Append(sink, [to_reply(input, msg_id_seq) EXCEPT !.payload = res.reply[1]])
    /\ phase' = unwrap(res)
    /\ hist' = Append(hist, [input |-> input, ok |-> res.ok, opok |-> res.opok,
                              val |-> res.val, pre |-> State])
    /\ appended' = IF input.payload.type = "send" /\ res.opok
                   THEN [appended EXCEPT ![input.payload.key] =
                             Append(@, <<res.val, input.payload.msg>>)]
                   ELSE appended
    /\ written' = IF input.payload.type = "send" /\ (res.opok \/ res.io = "write_no_newline")
                  THEN [written EXCEPT ![input.payload.key] =
                            @ \cup {res.st.next_offsets[input.payload.key] - 1}]
                  ELSE written
    /\ committed' = IF input.payload.type = "commit_offsets"
                    THEN LET c == [t \in res.val |-> input.payload.offsets[t]] @@ committed
                         IN  [t \in {u \in DOMAIN c : res.st.fs[CommitPath(u)] # <<>>} |-> c[t]]
                    ELSE committed
    /\ UNCHANGED <<intake, senders, nread, arrived, startFiles>>

Stepping(type) ==
    /\ phase = "running"
    /\ queue # <<>>
    /\ recv(queue).msg.payload.type = type

Init ==
    /\ fs = <<>>
    /\ phase = "boot"
    /\ msg_id_seq = 1
    /\ next_offsets = <<>>
    /\ file_handles = {}
    /\ index = <<>>
    /\ intake = "idle"
    /\ queue = <<>>
    /\ senders = {}
    /\ sink = <<>>
    /\ nread = 0
    /\ arrived = <<>>
    /\ hist = <<>>
    /\ appended = [t \in Topics |-> <<>>]
    /\ written = [t \in Topics |-> {}]
    /\ committed = <<>>
    /\ startFiles = {}

\* What the operating system may do to the write of init_ok to stdout.
BootIo == {"ok", "sink_fail"}

\* A variant that answers the init line like any other envelope, with the
\* first id of the message sequence.
init_reply_from_sequence(init_msg) == Message(init_msg.dst, init_msg.src, 1, init_msg.msg_id, InitOk)

\* The init_reply of main_loop: message id 0, in reply to the init line.
init_reply(init_msg) == Message(init_msg.dst, init_msg.src, 0, init_msg.msg_id, InitOk)

\* main_loop up to the spawn of the intake thread: the init line is read,
\* from_init rebuilds the index, init_ok is written, the channel is made, its
\* sender cloned, and the intake thread starts; an error of from_init or of
\* the write ends the process before the channel and the thread exist.
Bootstrap ==
    /\ phase = "boot"
    /\ \E io \in BootIo :
         LET b == build_index(fs)
         IN  IF b.ok /\ io = "ok"
             THEN /\ index' = b.index
                  /\ next_offsets' = b.next_offsets
                  /\ sink' = <<init_reply(InitMessage)>>
                  /\ senders' = {"tx", "tx_std"}
                  /\ intake' = "running"
                  /\ phase' = "running"
             ELSE /\ phase' = "failed"
                  /\ UNCHANGED <<index, next_offsets, sink, senders, intake>>
    /\ msg_id_seq' = 1
    /\ file_handles' = {}
    /\ UNCHANGED <<fs, queue, nread, arrived, hist, appended, written, committed, startFiles>>

\* The intake thread reads a line that decodes and sends the envelope.
IntakeLine ==
    /\ phase = "running"
    /\ intake = "running"
    /\ nread < MaxLines
    /\ \E payload \in Payloads :
         LET input == Message(Client, NodeId, nread + 2, None, payload)
         IN  /\ queue' = Append(queue, input)
             /\ arrived' = Append(arrived, input)
    /\ nread' = nread + 1
    /\ UNCHANGED <<fs, phase, msg_id_seq, next_offsets, file_handles, index, intake,
                   senders, sink, hist, appended, written, committed, startFiles>>

\* The intake thread reads a line that does not decode: serde_json's error is
\* unwrapped, which panics the thread; the unwinding drops its sender.
IntakeUndecodable ==
    /\ phase = "running"
    /\ intake = "running"
    /\ nread < MaxLines
    /\ intake' = "panicked"
    /\ senders' = senders \ {"tx_std"}
    /\ nread' = nread + 1
    /\ UNCHANGED <<fs, phase, msg_id_seq, next_offsets, file_handles, index, queue,
                   sink, arrived, hist, appended, written, committed, startFiles>>

\* stdin is at its end: the intake thread's loop ends, the closure returns
\* and its sender is dropped.
IntakeEof ==
    /\ phase = "running"
    /\ intake = "running"
    /\ intake' = "done"
    /\ senders' = senders \ {"tx_std"}
    /\ UNCHANGED <<fs, phase, msg_id_seq, next_offsets, file_handles, index, queue,
                   sink, nread, arrived, hist, appended, written, committed, startFiles>>

StepSend ==
    /\ Stepping("send")
    /\ \E io \in SendIo :
         Process(recv(queue).msg, step_send(State, recv(queue).msg.payload, io))

StepPoll ==
    /\ Stepping("poll")
    /\ LET input == recv(queue).msg
           keys == DOMAIN input.payload.offsets
       IN  \E order \in Orders(keys), at \in Topics, io \in PollIo :
             Process(input, step_poll(State, input.payload, order, at, io))

StepCommitOffsets ==
    /\ Stepping("commit_offsets")
    /\ LET input == recv(queue).msg
           keys == DOMAIN input.payload.offsets
       IN  \E order \in Orders(keys), at \in Topics, io \in CommitIo :
             Process(input, step_commit_offsets(State, input.payload, order, at, io))

StepListCommittedOffsets ==
    /\ Stepping("list_committed_offsets")
    /\ LET input == recv(queue).msg
       IN  \E io \in ListIo :
             Process(input, step_list_committed_offsets(State, input.payload, io))

\* The `_ => {}` arm: an envelope that carries a reply payload.
StepOther ==
    /\ phase = "running"
    /\ queue # <<>>
    /\ recv(queue).msg.payload.type
         \in {"send_ok", "poll_ok", "commit_offsets_ok", "list_committed_offsets_ok"}
    /\ Process(recv(queue).msg, [ok |-> TRUE, st |-> State, opok |-> TRUE, val |-> <<>>, io |-> "ok", reply |-> <<>>])

\* The harness kills the process (if it still runs) and starts a new one:
\* nothing in memory survives, the files do.
Restart ==
    /\ phase # "boot"
    /\ phase' = "boot"
    /\ msg_id_seq' = 1
    /\ next_offsets' = <<>>
    /\ file_handles' = {}
    /\ index' = <<>>
    /\ intake' = "idle"
    /\ queue' = <<>>
    /\ senders' = {}
    /\ sink' = <<>>
    /\ arrived' = <<>>
    /\ hist' = <<>>
    /\ startFiles' = DOMAIN fs
    /\ UNCHANGED <<fs, nread, appended, written, committed>>

\* The end of `for msg in rx`: the iterator ends when the channel is empty and
\* every sender is dropped; then tx is dropped, the intake thread is joined
\* and main_loop returns. The main thread holds tx until after the loop, so
\* no behaviour ever takes this step, and it is no disjunct of Next.
LoopEnd ==
    /\ phase = "running"
    /\ queue = <<>>
    /\ senders = {}
    /\ phase' = "exited"
    /\ UNCHANGED <<fs, msg_id_seq, next_offsets, file_handles, index, intake, queue, senders,
                   sink, nread, arrived, hist, appended, written, committed, startFiles>>

Next ==
    \/ Bootstrap
    \/ IntakeLine
    \/ IntakeUndecodable
    \/ IntakeEof
    \/ StepSend
    \/ StepPoll
    \/ StepCommitOffsets
    \/ StepListCommittedOffsets
    \/ StepOther
    \/ Restart

Spec == Init /\ [][Next]_vars

-----------------------------------------------------------------------------
(* Notions the properties below share.                                     *)

\* The counter of a topic, 0 for a topic that has none.
Counter(counters, topic) == IF topic \in DOMAIN counters THEN counters[topic] ELSE 0

\* The index of a topic, empty for a topic that has none.
IndexOf(idx, topic) == IF topic \in DOMAIN idx THEN idx[topic] ELSE <<>>

\* The node and its files after step i of this run.
PostState(i) == IF i < Len(hist) THEN hist[i + 1].pre ELSE State

\* The offsets append_message returned for a topic in the steps h, in order.
RECURSIVE ReturnedOffsets(_, _)
ReturnedOffsets(h, topic) ==
    IF h = <<>> THEN <<>>
    ELSE LET e == Head(h)
         IN  IF e.input.payload.type = "send" /\ e.input.payload.key = topic /\ e.opok
             THEN <<e.val>> \o ReturnedOffsets(Tail(h), topic)
             ELSE ReturnedOffsets(Tail(h), topic)

\* The message ids of the envelopes among the steps h that were answered, in
\* order: a step that returned Ok on a request.
RECURSIVE AnsweredIds(_)
AnsweredIds(h) ==
    IF h = <<>> THEN <<>>
    ELSE LET e == Head(h)
         IN  IF e.ok /\ e.input.payload.type
                          \in {"send", "poll", "commit_offsets", "list_committed_offsets"}
             THEN <<e.input.msg_id>> \o AnsweredIds(Tail(h))
             ELSE AnsweredIds(Tail(h))

\* The process has just started: it runs and has taken no step.
JustStarted == phase = "running" /\ hist = <<>>

-----------------------------------------------------------------------------
(* C1: on a node that started with no file for a topic, the successful     *)
(* appends to the topic return the offsets 0, 1, 2, ... in call order,     *)
(* whatever the values and whatever is appended to other topics.           *)
C1_OffsetsDenseFromZero ==
    \A t \in Topics :
        LogPath(t) \notin startFiles =>
            LET r == ReturnedOffsets(hist, t)
            IN  \A i \in 1..Len(r) : r[i] = i - 1

\* Two appends to one topic, with different values, returned offsets 0 and 1.
C1_Witness ==
    \E t \in Topics :
        /\ LogPath(t) \notin startFiles
        /\ ReturnedOffsets(hist, t) = <<0, 1>>
        /\ appended[t][1][2] # appended[t][2][2]

(* C2: after any successful appends to a topic, a restart followed by      *)
(* read_from(topic, 0) returns exactly the appended (offset, value) pairs, *)
(* in the order they were appended. Stated for the topics whose file got   *)
(* no record from an append that returned an error.                        *)
C2_RestartRoundTrip ==
    JustStarted =>
        \A t \in Topics :
            written[t] = {appended[t][i][1] : i \in 1..Len(appended[t])} =>
                LET r == read_messages(State, t, 0, "ok")
                IN  r.ok /\ r.val = appended[t]

(* C3: envelopes are stepped one at a time in the order the intake thread  *)
(* read them: the steps taken are a prefix of the arrivals, the channel    *)
(* holds the rest in order, and the replies on the sink answer the stepped *)
(* envelopes in that same order.                                           *)
C3_StepsInArrivalOrder ==
    /\ Len(hist) <= Len(arrived)
    /\ \A i \in 1..Len(hist) : hist[i].input = arrived[i]
    /\ queue = SubSeq(arrived, Len(hist) + 1, Len(arrived))
    /\ [i \in 1..(Len(sink) - 1) |-> sink[i + 1].in_reply_to] = AnsweredIds(hist)

\* Two envelopes were stepped and answered, the first with a durable effect.
C3_Witness ==
    /\ Len(hist) = 2
    /\ Len(sink) = 3
    /\ hist[2].pre.fs # hist[1].pre.fs

(* C4: a line that fails to decode does not stop the intake thread.        *)
C4_DecodeFailureKeepsIntake ==
    intake # "panicked"

(* C5: an append that fails with an I/O error leaves the topic's counter   *)
(* and index as they were before the call.                                 *)
C5_FailedAppendChangesNothing ==
    \A i \in 1..Len(hist) :
        (hist[i].input.payload.type = "send" /\ ~hist[i].opok) =>
            LET t == hist[i].input.payload.key
            IN  /\ Counter(PostState(i).next_offsets, t) = Counter(hist[i].pre.next_offsets, t)
                /\ IndexOf(PostState(i).index, t) = IndexOf(hist[i].pre.index, t)

\* The largest offset among the records of content c, 0 if it has none.
RECURSIVE MaxOffset(_)
MaxOffset(c) ==
    IF c = <<>> THEN 0
    ELSE LET m == MaxOffset(Tail(c))
         IN  IF Head(c).kind = "rec" /\ Head(c).offset > m THEN Head(c).offset ELSE m

(* C6: on startup the counter of a topic is the largest offset in the      *)
(* topic's file + 1, and 0 when the file is empty or absent.               *)
C6_CounterRestored ==
    JustStarted =>
        \A t \in Topics :
            Counter(next_offsets, t) =
                IF LogPath(t) \notin DOMAIN fs \/ fs[LogPath(t)] = <<>>
                THEN 0
                ELSE MaxOffset(fs[LogPath(t)]) + 1

(* C7: read_from(topic, start) for an indexed start returns the records    *)
(* start, start + 1, ..., next-offset - 1: ascending, without a gap.       *)
C7_ReadFromIndexedOffset ==
    phase = "running" =>
        \A t \in DOMAIN index : \A start \in DOMAIN index[t] :
            LET r == read_messages(State, t, start, "ok")
            IN  /\ r.ok
                /\ Len(r.val) = next_offsets[t] - start
                /\ \A i \in 1..Len(r.val) : r.val[i][1] = start + i - 1

(* C8: read_from(topic, o) for a topic the node does not know, or for an   *)
(* offset no record of which was ever written to the topic, returns the    *)
(* empty sequence, whatever the file system does: no error, no file        *)
(* created, nothing changed.                                               *)
C8_ReadOfMissingIsEmpty ==
    phase = "running" =>
        \A t \in Topics : \A o \in 0..(MaxLines + 1) : \A io \in PollIo :
            o \notin written[t] => read_messages(State, t, o, io) = Ok(State, <<>>)

\* A poll of a topic that has records, from an offset not written yet, was
\* answered with no record for it.
C8_Witness ==
    /\ hist # <<>>
    /\ LET e == hist[Len(hist)]
       IN  /\ e.input.payload.type = "poll"
           /\ e.ok
           /\ \E t \in DOMAIN e.val :
                  /\ written[t] # {}
                  /\ e.input.payload.offsets[t] \notin written[t]
                  /\ e.val[t] = <<>>
                  /\ State = e.pre

\* The steps from j on in this run are all commits that returned Ok.
OnlyCommitsFrom(j) ==
    \A i \in j..Len(hist) : hist[i].input.payload.type = "commit_offsets" /\ hist[i].opok

\* The steps from j on that commit topic t.
CommitsOf(j, t) == {i \in j..Len(hist) : t \in DOMAIN hist[i].input.payload.offsets}

Latest(S) == CHOOSE i \in S : \A k \in S : k <= i

(* C9: after any sequence of commits, list_committed([topic]) reports the  *)
(* offset of the latest commit of the topic, be it larger than, equal to   *)
(* or smaller than the ones before; a commit of the offset already         *)
(* committed changes nothing.                                              *)
C9_CommitLastWriteWins ==
    /\ \A j \in 1..Len(hist) : \A t \in Topics :
           (OnlyCommitsFrom(j) /\ CommitsOf(j, t) # {}) =>
               LET n == hist[Latest(CommitsOf(j, t))].input.payload.offsets[t]
                   l == step_list_committed_offsets(State, ListCommittedOffsets(<<t>>), "ok")
               IN  l.ok /\ l.val = (t :> n)
    /\ \A i \in 1..Len(hist) :
           LET e == hist[i]
           IN  (/\ e.input.payload.type = "commit_offsets"
                /\ e.opok
                /\ \A t \in DOMAIN e.input.payload.offsets :
                       read_commit(e.pre, t) = [kind |-> "some", n |-> e.input.payload.offsets[t]])
               => PostState(i) = e.pre

\* A topic was committed twice in a row, the second time with a smaller offset.
C9_Witness ==
    /\ Len(hist) = 2
    /\ OnlyCommitsFrom(1)
    /\ \E t \in Topics :
           /\ CommitsOf(1, t) = {1, 2}
           /\ hist[2].input.payload.offsets[t] < hist[1].input.payload.offsets[t]

(* C10: list_committed(topics) succeeds and has an entry for exactly the   *)
(* requested topics that have a commit record on this node, whatever the   *)
(* topics requested.                                                       *)
C10_ListExactlyCommitted ==
    phase = "running" =>
        \A keys \in KeyLists :
            LET l == step_list_committed_offsets(State, ListCommittedOffsets(keys), "ok")
            IN  /\ l.ok
                /\ DOMAIN l.val = {t \in Topics : /\ \E k \in 1..Len(keys) : keys[k] = t
                                                  /\ t \in DOMAIN committed}

(* C11: when the input is exhausted and the processing loop has consumed   *)
(* every queued envelope, the loop ends and main_loop returns: in that     *)
(* state the return is the step the main thread can take.                  *)
C11_TerminatesOnEof ==
    (phase = "running" /\ intake = "done" /\ queue = <<>>) => ENABLED LoopEnd

(* C12: the first line on the sink is init_ok, with message id 0, in reply *)
(* to the init line and with its source and destination swapped; no other  *)
(* line is an init_ok; and whenever the intake thread has been started, an *)
(* envelope is queued or a step has been taken, that line is on the sink.  *)
C12_InitOkFirst ==
    /\ (intake # "idle" \/ queue # <<>> \/ hist # <<>>) => sink # <<>>
    /\ sink # <<>> =>
           /\ sink[1].payload = InitOk
           /\ sink[1].msg_id = 0
           /\ sink[1].in_reply_to = InitMessage.msg_id
           /\ sink[1].src = InitMessage.dst
           /\ sink[1].dst = InitMessage.src
    /\ \A i \in 2..Len(sink) : sink[i].payload.type # "init_ok"

\* A request was stepped and answered: its reply is the second line.
C12_Witness ==
    /\ Len(hist) = 1
    /\ Len(sink) = 2
    /\ sink[2].in_reply_to = hist[1].input.msg_id

(* C13: a step that returned an error is the last step of its process: no  *)
(* later envelope is stepped, and the sink holds no line for it or after   *)
(* it, whether or not envelopes are still queued or still arriving.        *)
C13_StepFailureIsFatal ==
    \A i \in 1..Len(hist) :
        ~hist[i].ok =>
            /\ i = Len(hist)
            /\ Len(sink) = 1 + Len(AnsweredIds(SubSeq(hist, 1, i - 1)))

\* A step failed while another envelope was queued behind it and the intake
\* thread was still reading.
C13_Witness ==
    /\ Len(hist) = 1
    /\ ~hist[1].ok
    /\ phase = "crashed"
    /\ queue # <<>>
    /\ intake = "running"

\* Some file a startup reads has a line that is not one record.
Malformed(files) ==
    \E t \in GlobTopics(files) :
        LET lines == Lines(files[LogPath(t)])
        IN  \E i \in 1..Len(lines) : ~IsEntry(lines[i])

-----------------------------------------------------------------------------
(* The rebuild of the index, on its own: one topic file written over       *)
(* several process runs, each of which appends records at the counter it   *)
(* holds, which need not be the counter the file calls for, so that the    *)
(* offsets may come in any physical order.                                 *)

\* The number of records the file may hold; their offsets are below it.
MaxRecords == 3

RebuildTopic == "a"

\* The offsets of the records of content c, in physical order.
RECURSIVE OffsetsOf(_)
OffsetsOf(c) ==
    IF c = <<>> THEN <<>>
    ELSE IF Head(c).kind = "rec" THEN <<Head(c).offset>> \o OffsetsOf(Tail(c))
    ELSE OffsetsOf(Tail(c))

InitRebuild ==
    /\ fs = (LogPath(RebuildTopic) :> <<>>)
    /\ phase = "running"
    /\ msg_id_seq = 1
    /\ next_offsets = <<>>
    /\ file_handles = {}
    /\ index = <<>>
    /\ intake = "running"
    /\ queue = <<>>
    /\ senders = {"tx", "tx_std"}
    /\ sink = <<init_reply(InitMessage)>>
    /\ nread = 0
    /\ arrived = <<>>
    /\ hist = <<>>
    /\ appended = [t \in Topics |-> <<>>]
    /\ written = [t \in Topics |-> {}]
    /\ committed = <<>>
    /\ startFiles = {LogPath(RebuildTopic)}

\* append_message in a process whose counter for the topic is o, an offset
\* the file does not hold yet.
WriteRecord ==
    \E o \in 0..(MaxRecords - 1), v \in Values :
        /\ \A i \in 1..Len(OffsetsOf(fs[LogPath(RebuildTopic)])) :
               OffsetsOf(fs[LogPath(RebuildTopic)])[i] # o
        /\ LET r == append_message([State EXCEPT !.next_offsets = (RebuildTopic :> o)],
                                   RebuildTopic, v, "ok")
           IN  /\ fs' = r.st.fs
               /\ next_offsets' = r.st.next_offsets
               /\ file_handles' = r.st.file_handles
               /\ index' = r.st.index
        /\ UNCHANGED <<phase, msg_id_seq, intake, queue, senders, sink, nread, arrived, hist,
                       appended, written, committed, startFiles>>

\* The process ends and a new one rebuilds the index and the counters from
\* the file, as from_init does.
Rebuild ==
    /\ build_index(fs).ok
    /\ index' = build_index(fs).index
    /\ next_offsets' = build_index(fs).next_offsets
    /\ file_handles' = {}
    /\ UNCHANGED <<fs, phase, msg_id_seq, intake, queue, senders, sink, nread, arrived, hist,
                   appended, written, committed, startFiles>>

NextRebuild ==
    \/ WriteRecord
    \/ Rebuild

SpecRebuild == InitRebuild /\ [][NextRebuild]_vars

\* The node as a restart would rebuild it from the files of st.
Rebuilt(st) ==
    [st EXCEPT !.index = build_index(st.fs).index,
               !.next_offsets = build_index(st.fs).next_offsets,
               !.file_handles = {}]

\* The offsets of the file are 0..k, each once, in some order.
HoldsExactly(c, k) ==
    /\ Len(OffsetsOf(c)) = k + 1
    /\ \A j \in 0..k : \E i \in 1..(k + 1) : OffsetsOf(c)[i] = j

(* C15: when the topic file holds the records 0..k, each once, in whatever *)
(* physical order, the rebuild succeeds, the rebuilt counter is k + 1, and *)
(* read_from(topic, j) answers from the rebuilt index what it answers from *)
(* the index held in memory, for every j in 0..k.                          *)
C15_RebuildDeterminism ==
    \A k \in 0..(MaxRecords - 1) :
        HoldsExactly(fs[LogPath(RebuildTopic)], k) =>
            /\ build_index(fs).ok
            /\ build_index(fs).next_offsets[RebuildTopic] = k + 1
            /\ \A j \in 0..k :
                   LET new == read_messages(Rebuilt(State), RebuildTopic, j, "ok")
                       old == read_messages(State, RebuildTopic, j, "ok")
                   IN  new.ok /\ old.ok /\ new.val = old.val /\ new.val # <<>>

\* The file holds the records 2, 0, 1 in that order, the last of them
\* appended by the running process.
C15_Witness ==
    /\ OffsetsOf(fs[LogPath(RebuildTopic)]) = <<2, 0, 1>>
    /\ file_handles # {}

-----------------------------------------------------------------------------
(* C16: for every topic, append never returns an offset twice, over all    *)
(* runs; the counter never decreases, neither from one step to the next    *)
(* nor from the process that ends to the one a restart starts from the     *)
(* files; and an offset append has returned reads back as the record it    *)
(* was appended with.                                                      *)
C16_OffsetsNeverReused ==
    \A t \in Topics :
        /\ \A i, j \in 1..Len(appended[t]) :
               i # j => appended[t][i][1] # appended[t][j][1]
        /\ \A i \in 1..Len(hist) :
               Counter(PostState(i).next_offsets, t) >= Counter(hist[i].pre.next_offsets, t)
        /\ build_index(fs).ok =>
               Counter(build_index(fs).next_offsets, t) >= Counter(next_offsets, t)
        /\ phase = "running" =>
               \A i \in 1..Len(appended[t]) :
                   LET r == read_messages(State, t, appended[t][i][1], "ok")
                   IN  (r.ok /\ r.val # <<>>) => r.val[1] = appended[t][i]

\* The envelopes among the steps h that were answered, in order.
RECURSIVE AnsweredInputs(_)
AnsweredInputs(h) ==
    IF h = <<>> THEN <<>>
    ELSE LET e == Head(h)
         IN  IF e.ok /\ e.input.payload.type
                          \in {"send", "poll", "commit_offsets", "list_committed_offsets"}
             THEN <<e.input>> \o AnsweredInputs(Tail(h))
             ELSE AnsweredInputs(Tail(h))

(* C17: every line on the sink is a reply to the envelope it answers: the  *)
(* first to the init line, the others to the answered requests in order;   *)
(* its in_reply_to is the message id of that envelope, its source that     *)
(* envelope's destination and its destination that envelope's source.      *)
C17_ReplyInvariant ==
    sink # <<>> =>
        LET asked == <<InitMessage>> \o AnsweredInputs(hist)
        IN  /\ Len(sink) = Len(asked)
            /\ \A i \in 1..Len(sink) :
                   /\ sink[i].in_reply_to = asked[i].msg_id
                   /\ sink[i].src = asked[i].dst
                   /\ sink[i].dst = asked[i].src

\* Two requests of different kinds were answered.
C17_Witness ==
    /\ Len(sink) = 3
    /\ sink[2].payload.type # sink[3].payload.type

-----------------------------------------------------------------------------
(* The processing loop is never held back while an envelope is queued: the *)
(* main thread does nothing but receive and step.                          *)
(* Receive is the loop taking the envelope at the head of the channel,     *)
(* whatever the step then does with it: every step action of Next is a     *)
(* Receive step.                                                           *)
Receive ==
    /\ phase = "running"
    /\ queue # <<>>
    /\ queue' = recv(queue).rest
    /\ arrived' = arrived

FairSpec == Spec /\ WF_queue(Receive)

\* The reply step writes for a request it has handled with outcome val.
ReplyTo(payload, val) ==
    IF payload.type = "send" THEN SendOk(val)
    ELSE IF payload.type = "poll" THEN PollOk(val)
    ELSE IF payload.type = "commit_offsets" THEN CommitOffsetsOk
    ELSE ListCommittedOffsetsOk(val)

\* The values step handled the answered requests among the steps h with.
RECURSIVE AnsweredValues(_)
AnsweredValues(h) ==
    IF h = <<>> THEN <<>>
    ELSE LET e == Head(h)
         IN  IF e.ok /\ e.input.payload.type
                          \in {"send", "poll", "commit_offsets", "list_committed_offsets"}
             THEN <<e.val>> \o AnsweredValues(Tail(h))
             ELSE AnsweredValues(Tail(h))

\* Each request stepped without failure has exactly one reply, of its kind,
\* a send_ok with the offset append_message returned; an envelope of a reply
\* kind has none and leaves the files, the index and the counters alone.
RepliesMatch ==
    /\ sink # <<>> =>
           /\ Len(sink) = 1 + Len(AnsweredInputs(hist))
           /\ \A i \in 1..Len(AnsweredInputs(hist)) :
                  sink[i + 1].payload =
                      ReplyTo(AnsweredInputs(hist)[i].payload, AnsweredValues(hist)[i])
    /\ \A i \in 1..Len(hist) :
           hist[i].input.payload.type
               \in {"send_ok", "poll_ok", "commit_offsets_ok", "list_committed_offsets_ok"}
           => /\ hist[i].ok
              /\ PostState(i) = hist[i].pre

(* C18: every request that reaches the queue is stepped, unless a step     *)
(* fails or the process is ended first, and every request stepped without  *)
(* failure is answered by exactly one reply of its kind (send_ok with the  *)
(* offset assigned); an envelope of a reply kind produces no output and    *)
(* changes neither the log nor the commit store.                           *)
C18_RequestsAnswered ==
    /\ []RepliesMatch
    /\ \A n \in 1..MaxLines :
           (Len(arrived) >= n) ~> (Len(hist) >= n \/ phase # "running")

\* A send and an envelope of a reply kind were stepped: one reply, send_ok.
C18_Witness ==
    /\ Len(hist) = 2
    /\ hist[1].input.payload.type = "send"
    /\ hist[2].input.payload.type = "poll_ok"
    /\ phase = "running"
    /\ Len(sink) = 2
    /\ sink[2].payload = SendOk(0)

-----------------------------------------------------------------------------
(* C19: the sequence starts at 1 and every step advances it by one, taking *)
(* its value before the advance as the message id of the reply it builds:  *)
(* the reply of the k-th step of a run has message id k, so the message    *)
(* ids of the replies on the sink are strictly increasing, never repeat    *)
(* and are never the 0 of init_ok.                                         *)
C19_MessageIdsFresh ==
    /\ msg_id_seq = 1 + Len(hist)
    /\ \A j \in 2..Len(sink) :
           /\ sink[j].msg_id >= 1
           /\ sink[j].msg_id > sink[j - 1].msg_id
           /\ \E k \in 1..Len(hist) :
                  /\ hist[k].input.msg_id = sink[j].in_reply_to
                  /\ sink[j].msg_id = k

\* The first step wrote no reply and the second did: its message id is 2.
C19_Witness ==
    /\ Len(hist) = 2
    /\ Len(sink) = 2
    /\ sink[2].in_reply_to = hist[2].input.msg_id
    /\ sink[2].msg_id = 2

-----------------------------------------------------------------------------
\* The records of a file as pairs <<offset, byte position at which the line
\* holding the record starts>>, given the lines and the position of the first.
RECURSIVE RecordLines(_, _)
RecordLines(lines, location_ptr) ==
    IF lines = <<>> THEN {}
    ELSE LET l == Head(lines)
         IN  {<<l.toks[i].offset, location_ptr>> :
                  i \in {j \in 1..Len(l.toks) : l.toks[j].kind = "rec"}}
             \cup RecordLines(Tail(lines), location_ptr + l.bytes)

(* C20: whenever the node is between two steps, a just rebuilt node        *)
(* included, for every topic the offsets in the index are exactly          *)
(* 0 .. counter - 1, they are the offsets of the records in the topic's    *)
(* file, and every index entry is the byte position at which the line of   *)
(* the record with that offset starts.                                     *)
C20_IndexConsistent ==
    phase = "running" =>
        \A t \in Topics :
            LET c    == IF LogPath(t) \in DOMAIN fs THEN fs[LogPath(t)] ELSE <<>>
                idx  == IndexOf(index, t)
                recs == RecordLines(Lines(c), 0)
            IN  /\ DOMAIN idx = 0..(Counter(next_offsets, t) - 1)
                /\ DOMAIN idx = {r[1] : r \in recs}
                /\ \A o \in DOMAIN idx : <<o, idx[o]>> \in recs

-----------------------------------------------------------------------------
\* Whether a file exists, and its content.
FileOf(files, path) ==
    IF path \in DOMAIN files THEN <<TRUE, files[path]>> ELSE <<FALSE, <<>>>>

\* The record file, the index and the counter of a topic are in s what they
\* are in t.
SameLog(s, t, topic) ==
    /\ FileOf(s.fs, LogPath(topic)) = FileOf(t.fs, LogPath(topic))
    /\ (topic \in DOMAIN s.index) = (topic \in DOMAIN t.index)
    /\ IndexOf(s.index, topic) = IndexOf(t.index, topic)
    /\ (topic \in DOMAIN s.next_offsets) = (topic \in DOMAIN t.next_offsets)
    /\ Counter(s.next_offsets, topic) = Counter(t.next_offsets, topic)

(* C21: the commit store and the log store are independent for every      *)
(* choice of topic names: a step that commits changes no topic's record    *)
(* file, index or counter, and a step that appends to a topic changes no   *)
(* topic's commit file and no other topic's record file, index or counter. *)
C21_StoresIndependent ==
    \A i \in 1..Len(hist) :
        LET e == hist[i]
            p == e.input.payload
        IN  /\ p.type = "commit_offsets" =>
                   \A t \in Topics : SameLog(e.pre, PostState(i), t)
            /\ p.type = "send" =>
                   \A t \in Topics :
                       /\ FileOf(e.pre.fs, CommitPath(t)) = FileOf(PostState(i).fs, CommitPath(t))
                       /\ t # p.key => SameLog(e.pre, PostState(i), t)

=============================================================================
